---- MODULE Spec2Model ----
(***************************************************************************)
(* A model of the reddit-auto bot: the retrying image fetch               *)
(* (fetchImageWithRetry / generateImage), the GitHub GraphQL pagination    *)
(* loop (getMergedPRsFromPreviousDay), the workflows built from them, bot   *)
(* verification and posting, and the hosted menu handlers.  One run of one *)
(* entry point is one behaviour.                                           *)
(* The variable log is a history of the run (requests issued, responses    *)
(* received, waits, commands, file writes); the program never reads it.    *)
(***************************************************************************)
EXTENDS Integers, Sequences, FiniteSets, TLC

\* ------------------------------------------------------------------ bounds

\* SpecPolicy draws the retry limit from 1..MaxPolicy.
MaxPolicy == 4
\* The GitHub server holds at most MaxPages pages of merged pull requests,
\* each of at most MaxPerPage nodes.
MaxPages == 2
MaxPerPage == 1

\* createMergedPrompt is given lists of at most MaxListLen pull requests.
MaxListLen == 9

\* ------------------------------------------------------- program constants

MAX_RETRIES == 3
INITIAL_RETRY_DELAY == 2
MAX_SEED == 2147483647
\* prs.slice(0, 8): the pull requests that get a highlight.
HIGHLIGHT_LIMIT == 8
\* The base of Math.pow(2, attempt - 1).
BACKOFF_BASE == 2
\* setTimeout(resolve, 5000) between media upload and submitPost.
SUBMIT_DELAY_MS == 5000

VARIABLES
    entry,              \* the entry point this run executes
    githubToken,        \* the GitHub token argument / setting is non-empty
    pollinationsToken,  \* the image-API token argument / setting is non-empty
    envToken,           \* process.env.POLLINATIONS_TOKEN is set
    maxAttempts,        \* the retry limit the retrying fetch reads (MAX_RETRIES)
    context,            \* a Devvit context is passed to the workflow
    yesterdayMs,        \* the length of the local day before today, in ms
    prsArg,             \* the argument of a direct call of createMergedPrompt
    pc,                 \* position in the code
    attempt,            \* fetchImageWithRetry's / generateImage's attempt argument
    errors,             \* the errors caught so far by the retrying fetch, in order
    fetchResult,        \* what the outermost retrying fetch call settled with
    callArgs,           \* the other arguments of the current retrying fetch call
    cursor,             \* getMergedPRsFromPreviousDay: cursor (0 is null)
    pageNum,            \* getMergedPRsFromPreviousDay: pageNum
    allPRs,             \* getMergedPRsFromPreviousDay: allPRs
    fetched,            \* history: the nodes of the pages received so far, in
                        \* order, kept where getPRsAndCreatePrompt is the entry
    promptData,         \* the value getPRsAndCreatePrompt returned
    imageData,          \* the value generateAndSaveComicImage returned
    files,              \* image files on disk, by the invocation that produced them
    toasts,             \* the texts context.ui.showToast was called with, in order
    postTitle,          \* the value generateTitleFromImage returned
    outcome,            \* how the entry point ended
    log                 \* history of the run

vars == <<entry, githubToken, pollinationsToken, envToken, maxAttempts, context,
          yesterdayMs, prsArg, pc, attempt, errors, fetchResult, callArgs, cursor,
          pageNum, allPRs, fetched, promptData, imageData, files, toasts,
          postTitle, outcome, log>>

inputVars == <<entry, githubToken, pollinationsToken, envToken, maxAttempts,
               context, yesterdayMs, prsArg>>
retryVars == <<attempt, errors, fetchResult, callArgs>>
prVars    == <<cursor, pageNum, allPRs, fetched>>
uiVars    == <<toasts, postTitle>>

\* --------------------------------------------------------------- helpers

RECURSIVE Pow(_, _)
Pow(b, e) == IF e = 0 THEN 1 ELSE b * Pow(b, e - 1)

RECURSIVE SumSeq(_)
SumSeq(s) == IF s = <<>> THEN 0 ELSE Head(s) + SumSeq(Tail(s))

SeqsUpTo(S, n) == UNION {[1..k -> S] : k \in 0..n}

Last(s) == s[Len(s)]

\* A prompt string: the prompt text it was built from, and whether the comic
\* enhancements were appended and encodeURIComponent applied.
Prompt(base, enhanced, encoded) ==
    [base |-> base, enhanced |-> enhanced, encoded |-> encoded]
NoPromptText == Prompt(0, FALSE, FALSE)

\* The arguments of a retrying fetch call besides attempt.
NoArgs == [prompt |-> NoPromptText, seed |-> 0]

\* What an image request carries besides its Authorization header.
NoConfig == [model |-> "", width |-> 0, height |-> 0, quality |-> ""]
NoRequest == [prompt |-> NoPromptText, seed |-> 0, config |-> NoConfig]

\* One entry of the history; req is filled in for image requests, more
\* (pageInfo.hasNextPage) for GitHub responses.
Ev(ev, site, n, kind) ==
    [ev |-> ev, site |-> site, n |-> n, kind |-> kind, req |-> NoRequest,
     more |-> FALSE]

Events(ev, site) == SelectSeq(log, LAMBDA e : e.ev = ev /\ e.site = site)

\* The number of requests sent to site so far: the environment's own count,
\* which names the response (buffer or error) each request gets.
Sent(site) == Len(Events("request", site))

\* An error object: what failed, and the invocation (or page) it came from.
\* wraps counts the "Image generation failed: " prefixes put before its message.
Err(kind, n) == [kind |-> kind, n |-> n, wraps |-> 0]
NoError == Err("none", 0)

NoResult == [status |-> "none", value |-> 0, error |-> NoError]
NoOutcome == [kind |-> "none", success |-> FALSE, msg |-> "", error |-> NoError]
NoPrompt == [present |-> FALSE, default |-> FALSE, prCount |-> 0,
             highlights |-> <<>>, themes |-> <<>>, prs |-> <<>>]

\* A JavaScript value that is an array, and the value undefined.
JsArray(items) == [defined |-> TRUE, items |-> items]
Undefined == [defined |-> FALSE, items |-> <<>>]
NoImage == [present |-> FALSE, success |-> FALSE, file |-> 0, error |-> NoError]

\* A post title: the generated text (a string of characters) or one of the
\* fixed titles.
NoTitle == [text |-> <<>>, fixed |-> ""]

Returned(ok, e) == [kind |-> "return", success |-> ok, msg |-> "", error |-> e]
Threw(e) == [kind |-> "throw", success |-> FALSE, msg |-> "", error |-> e]
\* process.exit(1), or the process ending on its own with code 0.
Exited(code) == [kind |-> "exit", success |-> (code = 0),
                 msg |-> IF code = 0 THEN "0" ELSE "1", error |-> NoError]
Toast(text, posted) == [kind |-> "toast", success |-> posted, msg |-> text,
                        error |-> NoError]

\* ------------------------------------------------- the retrying image fetch

\* What one invocation of fetch can do: answer 2xx with a readable body,
\* reject (network error, timeout), answer non-2xx, or answer 2xx with a
\* body whose read rejects.
FetchOutcomes == {"ok", "neterr", "http", "buffer"}

\* The first retry made without a wait.
NeedsDelaySkipsFirstRetry(a) == a > 1

\* Every retry made at once, without a wait.
NeedsDelayNever(a) == FALSE

\* if (attempt > 0)
NeedsDelay(a) == a > 0

\* The exponent taken from attempt instead of attempt - 1.
RetryDelayFromAttempt(a) == INITIAL_RETRY_DELAY * Pow(BACKOFF_BASE, a)

\* const delay = INITIAL_RETRY_DELAY * Math.pow(2, attempt - 1)
RetryDelay(a) == INITIAL_RETRY_DELAY * Pow(BACKOFF_BASE, a - 1)

\* attempt <= MAX_RETRIES - 1: one retry too many.
ShouldRetryOnceMore(a, n) == a <= n - 1

\* attempt <= MAX_RETRIES: two retries too many.
ShouldRetryTwiceMore(a, n) == a <= n

\* if (attempt < MAX_RETRIES - 1)
ShouldRetry(a, n) == a < n - 1

\* Every completed attempt taken for a failure.
AttemptFailsAlways(o) == TRUE

\* The response.ok check left out: a non-2xx response read as the image.
AttemptFailsUnlessAnswered(o) == o \notin {"ok", "http"}

\* if (!response.ok) throw new Error(`HTTP ...`), inside the try; a rejected
\* fetch or body read throws there too.
AttemptFails(o) == o # "ok"

\* A fresh error thrown on exhaustion, the caught one dropped.
ThrownErrorGeneric(errs) == Err("retries exhausted", 0)

\* The first attempt's error kept and thrown on exhaustion.
ThrownErrorFirst(errs) == Head(errs)

\* throw error: the error the last catch block holds.
ThrownError(errs) == Last(errs)

\* The Authorization header of the image request: part_001 sends
\* `Bearer ${pollinationsToken || process.env.POLLINATIONS_TOKEN}`, which is
\* "Bearer undefined" when neither is set; generateComicImage.js sends none.
ImageAuth ==
    IF entry = "generateImage"
    THEN (IF pollinationsToken \/ envToken THEN "bearer" ELSE "bearer-undefined")
    ELSE "no-header"

\* const IMAGE_CONFIG = {..., model: 'nanobanana', ...}
IMAGE_CONFIG ==
    [model |-> "nanobanana", width |-> 1024, height |-> 1024, quality |-> "hd"]

\* The values Math.floor(Math.random() * MAX_SEED) is drawn from: both ends of
\* its range.
Seeds == {0, MAX_SEED - 1}

\* The request one attempt builds from the call's arguments: the url of
\* fetchImageWithRetry (prompt, model, size, quality, seed), or the body
\* {prompt} that generateImage posts.
ImageRequest(args) ==
    IF entry = "generateImage"
    THEN [prompt |-> args.prompt, seed |-> 0, config |-> NoConfig]
    ELSE [prompt |-> args.prompt, seed |-> args.seed, config |-> IMAGE_CONFIG]

\* A fresh seed derived for the retry.
RetryArgsReseeded(args) == [args EXCEPT !.seed = (@ + 1) % MAX_SEED]

\* return fetchImageWithRetry(encodedPrompt, seed, attempt + 1): the
\* arguments the recursive call receives besides attempt.
RetryArgs(args) == [prompt |-> args.prompt, seed |-> args.seed]

\* The retry counted twice.
NextAttemptSkips(a) == a + 2

\* The attempt argument of the recursive call: attempt + 1.
NextAttempt(a) == a + 1

\* Where a call of the retrying fetch with attempt a starts.
EnterFetch(a) == IF NeedsDelay(a) THEN "img_delay" ELSE "img_fetch"

\* Where the caller of the outermost retrying fetch resumes.
AfterFetch == IF entry = "generateImage" THEN "done" ELSE "comic_resume"

\* generateImage(prompt, pollinationsToken) called directly (part_001).
StartGenerateImage ==
    /\ pc = "start"
    /\ entry = "generateImage"
    /\ attempt' = 0
    /\ callArgs' = [prompt |-> Prompt(1, FALSE, FALSE), seed |-> 0]
    /\ pc' = EnterFetch(0)
    /\ UNCHANGED <<inputVars, uiVars, errors, fetchResult, prVars, promptData, imageData,
                   files, outcome, log>>

\* await new Promise(r => setTimeout(r, delay * 1000))
FetchDelay ==
    /\ pc = "img_delay"
    /\ log' = Append(log, Ev("wait", "image", RetryDelay(attempt), "sleep"))
    /\ pc' = "img_fetch"
    /\ UNCHANGED <<inputVars, uiVars, retryVars, prVars, promptData, imageData, files,
                   outcome>>

\* const response = await fetch(url, ...): the request leaves.
FetchIssue ==
    /\ pc = "img_fetch"
    /\ log' = Append(log, [Ev("request", "image", Sent("image") + 1, ImageAuth)
                             EXCEPT !.req = ImageRequest(callArgs)])
    /\ pc' = "img_await"
    /\ UNCHANGED <<inputVars, uiVars, retryVars, prVars, promptData, imageData, files,
                   outcome>>

\* The request completes; the try block returns the buffer or the catch block
\* retries (the recursive call with attempt + 1) or rethrows.
FetchRespond ==
    /\ pc = "img_await"
    /\ \E o \in FetchOutcomes :
        /\ log' = Append(log, Ev("response", "image", Sent("image"), o))
        /\ IF ~AttemptFails(o)
           THEN /\ fetchResult' = [status |-> "ok", value |-> Sent("image"),
                                   error |-> NoError]
                /\ pc' = AfterFetch
                /\ IF entry = "generateImage"
                   THEN outcome' = Returned(TRUE, NoError)
                   ELSE outcome' = outcome
                /\ UNCHANGED <<attempt, errors, callArgs>>
           ELSE LET errs == Append(errors, Err(o, Sent("image"))) IN
                /\ errors' = errs
                /\ IF ShouldRetry(attempt, maxAttempts)
                   THEN /\ attempt' = NextAttempt(attempt)
                        /\ callArgs' = RetryArgs(callArgs)
                        /\ pc' = EnterFetch(NextAttempt(attempt))
                        /\ UNCHANGED <<fetchResult, outcome>>
                   ELSE /\ fetchResult' = [status |-> "raised", value |-> 0,
                                           error |-> ThrownError(errs)]
                        /\ pc' = AfterFetch
                        /\ IF entry = "generateImage"
                           THEN outcome' = Threw(ThrownError(errs))
                           ELSE outcome' = outcome
                        /\ UNCHANGED <<attempt, callArgs>>
    /\ UNCHANGED <<inputVars, uiVars, prVars, promptData, imageData, files>>

\* ------------------------------------------- getMergedPRsFromPreviousDay

\* 24 * 60 * 60 * 1000
DAY_MS == 24 * 60 * 60 * 1000

\* getPreviousDayRange: endDate is the start of today, startDate 24 hours
\* before it.  The run takes place on day 10 of the epoch.
endDate == 10 * DAY_MS
startDate == endDate - DAY_MS

\* The lengths a local calendar day can have: 24 hours, or 23 or 25 on the
\* day the zone's clocks are moved.
HOUR_MS == 60 * 60 * 1000
DayLengths == {DAY_MS - HOUR_MS, DAY_MS, DAY_MS + HOUR_MS}

\* new Date(y, m, d - 1): the local midnight yesterday began with.
StartOfYesterday == endDate - yesterdayMs

\* if (mergedDate >= startDate && mergedDate < endDate)
InRange(t) == t >= startDate /\ t < endDate

\* The merge times the server's pull requests can have: around both ends of
\* the range and around the start of yesterday.
Times == {startDate - 1, startDate, endDate - 1, endDate,
          StartOfYesterday - 1, StartOfYesterday}

\* Strings whose characters matter are sequences of one-character strings.
UpperCase == <<"A", "B", "C", "D", "E", "F", "G", "H", "I", "J", "K", "L", "M",
               "N", "O", "P", "Q", "R", "S", "T", "U", "V", "W", "X", "Y", "Z">>
LowerCase == <<"a", "b", "c", "d", "e", "f", "g", "h", "i", "j", "k", "l", "m",
               "n", "o", "p", "q", "r", "s", "t", "u", "v", "w", "x", "y", "z">>

\* String.prototype.toLowerCase
toLowerCase(str) ==
    [i \in 1..Len(str) |->
        IF \E k \in 1..Len(UpperCase) : UpperCase[k] = str[i]
        THEN LowerCase[CHOOSE k \in 1..Len(UpperCase) : UpperCase[k] = str[i]]
        ELSE str[i]]

\* String.prototype.includes: sub occurs in str, case-sensitively.
includes(str, sub) ==
    \E i \in 1..(Len(str) - Len(sub) + 1) : SubSeq(str, i, i + Len(sub) - 1) = sub

TITLE_FIX == <<"F", "i", "x">>
TITLE_ADD == <<"a", "d", "d">>
TITLE_DOCS == <<"d", "o", "c", "s">>
TITLE_DOCS_CAPITAL == <<"D", "o", "c", "s">>
TITLE_PERF == <<"p", "e", "r", "f">>
TITLE_MISC == <<"m", "i", "s", "c">>
TITLE_OPTIM == <<"O", "p", "t", "i", "m">>

\* The titles the server's pull requests can have.
Titles == <<TITLE_FIX, TITLE_ADD, TITLE_DOCS, TITLE_DOCS_CAPITAL, TITLE_PERF,
            TITLE_MISC, TITLE_OPTIM>>

\* A pull request node: its url is named by its number.
PullRequest(number, title, mergedAt) ==
    [number |-> number, title |-> title, url |-> number, mergedAt |-> mergedAt]

\* The nodes of page number page whose merge times are ts: pull requests are
\* numbered through the pages.
NodesOf(ts, page) ==
    [i \in 1..Len(ts) |->
        PullRequest((page - 1) * MaxPerPage + i,
                    Titles[(((page - 1) * MaxPerPage + i) % Len(Titles)) + 1], ts[i])]

\* What a page request can end with: the fetch or response.json() rejects,
\* the response carries GraphQL errors, or it carries a page.  The server
\* holds MaxPages pages at most; endCursor names the page just served.
PageOutcomes(page) ==
    {[kind |-> k, nodes |-> <<>>, hasNextPage |-> FALSE, endCursor |-> 0] :
        k \in {"throw", "errors"}}
    \cup
    {[kind |-> "page", nodes |-> NodesOf(ts, page), hasNextPage |-> h,
      endCursor |-> page] :
        ts \in SeqsUpTo(Times, MaxPerPage),
        h \in (IF page < MaxPages THEN BOOLEAN ELSE {FALSE})}

\* for (const pr of nodes) { if (in range) allPRs.push({...}) }
FilterPage(nodes) == SelectSeq(nodes, LAMBDA pr : InRange(pr.mergedAt))

\* The cursor left as it was.
NextCursorStays(c, pageInfo) == c

\* cursor = pageInfo.endCursor
NextCursor(c, pageInfo) == pageInfo.endCursor

\* The failed page requested again.
AfterPageFailureRetry == "retry"

\* The failure of the page request thrown to the caller.
AfterPageFailureThrow == "throw"

\* What the loop does after a page request that threw or carried GraphQL
\* errors: break.
AfterPageFailure == "break"

\* The category names.
CATEGORY_BUG_FIX == <<"b", "u", "g", " ", "f", "i", "x">>
CATEGORY_FEATURE == <<"f", "e", "a", "t", "u", "r", "e">>
CATEGORY_DOCUMENTATION == <<"d", "o", "c", "u", "m", "e", "n", "t", "a", "t", "i", "o", "n">>
CATEGORY_OPTIMIZATION == <<"o", "p", "t", "i", "m", "i", "z", "a", "t", "i", "o", "n">>
CATEGORY_UPDATE == <<"u", "p", "d", "a", "t", "e">>

\* The first eight pull requests kept as they are: all of them.
TopPRsAll(prs) == prs

\* prs.slice(0, 8)
TopPRs(prs) ==
    SubSeq(prs, 1, IF Len(prs) < HIGHLIGHT_LIMIT THEN Len(prs) ELSE HIGHLIGHT_LIMIT)

\* The category of a pull request, from its lower-cased title.
Category(pr) ==
    LET title == toLowerCase(pr.title) IN
    IF includes(title, <<"f", "i", "x">>) \/ includes(title, <<"b", "u", "g">>) THEN CATEGORY_BUG_FIX
    ELSE IF includes(title, <<"f", "e", "a", "t">>) \/ includes(title, <<"a", "d", "d">>) THEN CATEGORY_FEATURE
    ELSE IF includes(title, <<"d", "o", "c", "s">>) THEN CATEGORY_DOCUMENTATION
    ELSE IF includes(title, <<"p", "e", "r", "f">>) \/ includes(title, <<"o", "p", "t", "i", "m">>)
    THEN CATEGORY_OPTIMIZATION
    ELSE CATEGORY_UPDATE

\* `${category}: ${pr.title}`
Highlight(pr) == Category(pr) \o <<":", " ">> \o pr.title

\* The theme of a highlight, from its text as it is.
Theme(h) ==
    IF includes(h, <<"b", "u", "g">>) THEN "stability"
    ELSE IF includes(h, <<"f", "e", "a", "t", "u", "r", "e">>) THEN "innovation"
    ELSE IF includes(h, <<"d", "o", "c", "s">>) THEN "education"
    ELSE IF includes(h, <<"o", "p", "t", "i", "m">>) THEN "performance"
    ELSE "growth"

\* [...new Set(values)]: each value once, in the order of first occurrence.
RECURSIVE Distinct(_)
Distinct(values) ==
    IF values = <<>> THEN <<>>
    ELSE LET rest == Distinct(SubSeq(values, 1, Len(values) - 1))
             last == values[Len(values)]
         IN IF \E i \in 1..Len(rest) : rest[i] = last THEN rest
            ELSE Append(rest, last)

\* createMergedPrompt(prs): the fixed default prompt when prs is missing or
\* empty; otherwise the highlights of the first eight pull requests, the themes
\* named in the prompt, the count and the references of all of them.
createMergedPrompt(prs) ==
    IF ~prs.defined \/ Len(prs.items) = 0
    THEN [present |-> TRUE, default |-> TRUE, prCount |-> 0,
          highlights |-> <<>>, themes |-> <<>>, prs |-> <<>>]
    ELSE LET highlights == [i \in 1..Len(TopPRs(prs.items)) |->
                                Highlight(TopPRs(prs.items)[i])]
         IN [present |-> TRUE, default |-> FALSE, prCount |-> Len(prs.items),
             highlights |-> highlights,
             themes |-> Distinct([i \in 1..Len(highlights) |-> Theme(highlights[i])]),
             prs |-> [i \in 1..Len(prs.items) |->
                        [number |-> prs.items[i].number,
                         title |-> prs.items[i].title,
                         url |-> prs.items[i].url]]]

\* The catch block reporting a success.
CaughtAsSuccess(e) == Returned(TRUE, e)

\* The error leaving the entry point instead of being caught.
CaughtRethrows(e) == Threw(e)

\* How an error that reaches the entry point's own catch (or escapes it) ends
\* the run: getPRsAndCreatePrompt rethrows, the workflows return
\* {success: false, error}, the standalone entry point exits 1.
Caught(e) ==
    CASE entry \in {"workflow", "full"} -> Returned(FALSE, e)
      [] entry = "standalone" -> Exited(1)
      [] OTHER                -> Threw(e)

\* getPRsAndCreatePrompt(githubToken) called directly.
StartPRs ==
    /\ pc = "start"
    /\ entry = "prs"
    /\ pc' = "prs_call"
    /\ UNCHANGED <<inputVars, uiVars, retryVars, prVars, promptData, imageData, files,
                   outcome, log>>

\* runComicGenerationWorkflow(githubToken, pollinationsToken) called directly.
StartWorkflow ==
    /\ pc = "start"
    /\ entry = "workflow"
    /\ pc' = "prs_call"
    /\ UNCHANGED <<inputVars, uiVars, retryVars, prVars, promptData, imageData, files,
                   outcome, log>>

\* runFullWorkflow(githubToken, pollinationsToken, context) called directly.
StartFullWorkflow ==
    /\ pc = "start"
    /\ entry = "full"
    /\ pc' = "prs_call"
    /\ UNCHANGED <<inputVars, uiVars, retryVars, prVars, promptData, imageData, files,
                   outcome, log>>

\* standaloneEntrypoint: if (!githubToken) process.exit(1), else the workflow.
StartStandalone ==
    /\ pc = "start"
    /\ entry = "standalone"
    /\ IF ~githubToken
       THEN /\ outcome' = Exited(1)
            /\ pc' = "done"
       ELSE /\ pc' = "prs_call"
            /\ UNCHANGED outcome
    /\ UNCHANGED <<inputVars, uiVars, retryVars, prVars, promptData, imageData, files, log>>

\* getMergedPRsFromPreviousDay up to its loop: if (!githubToken) throw.
PRCall ==
    /\ pc = "prs_call"
    /\ IF ~githubToken
       THEN /\ outcome' = Caught(Err("GitHub token is required", 0))
            /\ pc' = "done"
            /\ UNCHANGED prVars
       ELSE /\ cursor' = 0
            /\ pageNum' = 1
            /\ allPRs' = <<>>
            /\ fetched' = <<>>
            /\ pc' = "pr_request"
            /\ UNCHANGED outcome
    /\ UNCHANGED <<inputVars, uiVars, retryVars, promptData, imageData, files, log>>

\* const response = await fetch(GITHUB_GRAPHQL_API, ...) with the cursor.
PRRequest ==
    /\ pc = "pr_request"
    /\ log' = Append(log, Ev("request", "github", cursor, "page"))
    /\ pc' = "pr_await"
    /\ UNCHANGED <<inputVars, uiVars, retryVars, prVars, promptData, imageData, files,
                   outcome>>

\* The loop's exit: return allPRs, then getPRsAndCreatePrompt builds the
\* prompt and its caller resumes.
PRReturn(prs) ==
    /\ promptData' = createMergedPrompt(JsArray(prs))
    /\ IF entry = "prs"
       THEN /\ outcome' = Returned(TRUE, NoError)
            /\ pc' = "done"
       ELSE /\ pc' = "wf_generate"
            /\ UNCHANGED outcome

\* The page request completes: the server answers with the page that follows
\* the cursor it was sent; then the rest of the loop body.
PRRespond ==
    /\ pc = "pr_await"
    /\ \E o \in PageOutcomes(cursor + 1) :
        /\ log' = Append(log, [Ev("response", "github", cursor + 1, o.kind)
                                 EXCEPT !.more = o.hasNextPage])
        /\ IF o.kind # "page"
           THEN IF AfterPageFailure = "break"
                THEN /\ PRReturn(allPRs)
                     /\ UNCHANGED prVars
                ELSE IF AfterPageFailure = "throw"
                THEN /\ outcome' = Caught(Err(o.kind, cursor + 1))
                     /\ pc' = "done"
                     /\ UNCHANGED <<prVars, promptData>>
                ELSE /\ pc' = "pr_request"
                     /\ UNCHANGED <<prVars, promptData, outcome>>
           ELSE LET prs == allPRs \o FilterPage(o.nodes) IN
                /\ allPRs' = prs
                /\ fetched' = IF entry = "prs" THEN fetched \o o.nodes
                               ELSE fetched
                /\ IF ~o.hasNextPage
                   THEN /\ PRReturn(prs)
                        /\ UNCHANGED <<cursor, pageNum>>
                   ELSE /\ cursor' = NextCursor(cursor, o)
                        /\ pageNum' = pageNum + 1
                        /\ pc' = "pr_request"
                        /\ UNCHANGED <<promptData, outcome>>
    /\ UNCHANGED <<inputVars, uiVars, retryVars, imageData, files>>

\* ------------------------------------------------ generateAndSaveComicImage

\* throw new Error(`Image generation failed: ${error.message}`)
Wrap(e) == [e EXCEPT !.wraps = @ + 1]

\* What fs.writeFileSync(filepath, imageBuffer) can do.
WriteOutcomes == {"ok", "throw"}

\* The text of promptData.prompt, named by the number of pull requests it was
\* built from; testGenerateImage's fixed prompt has prCount 0.
PromptText(pd) == pd.prCount + 1

\* generateAndSaveComicImage up to its fetch: the prompt is enhanced and
\* encoded, the seed drawn, and fetchImageWithRetry(encodedPrompt, seed) called.
CallFetch(pd) ==
    /\ attempt' = 0
    /\ \E s \in Seeds :
        callArgs' = [prompt |-> Prompt(PromptText(pd), TRUE, TRUE), seed |-> s]
    /\ pc' = EnterFetch(0)

\* testGenerateImage(): generateAndSaveComicImage(testPrompt), which the module
\* runs when loaded.
StartComic ==
    /\ pc = "start"
    /\ entry = "comic"
    /\ CallFetch(promptData)
    /\ UNCHANGED <<inputVars, uiVars, errors, fetchResult, prVars, promptData, imageData,
                   files, outcome, log>>

\* The workflow's step 2: if (!promptData) throw, then
\* generateAndSaveComicImage(promptData, pollinationsToken) up to its fetch.
WorkflowGenerate ==
    /\ pc = "wf_generate"
    /\ IF ~promptData.present
       THEN /\ outcome' = Caught(Err("Failed to generate prompt from PRs", 0))
            /\ pc' = "done"
            /\ UNCHANGED <<attempt, callArgs>>
       ELSE /\ CallFetch(promptData)
            /\ UNCHANGED outcome
    /\ UNCHANGED <<inputVars, uiVars, errors, fetchResult, prVars, promptData, imageData,
                   files, log>>

\* The failure of the retrying fetch swallowed: the write goes on.
SkipsWriteNever(result) == FALSE

\* A retrying fetch that raised leaves the try block before writeFileSync.
SkipsWrite(result) == result.status = "raised"

\* generateAndSaveComicImage after its retrying fetch settled: the inner catch
\* wraps and rethrows, the outer catch returns {success: false, error};
\* otherwise the image is written and {success: true, ...} returned.
ComicResume ==
    /\ pc = "comic_resume"
    /\ IF SkipsWrite(fetchResult)
       THEN /\ imageData' = [present |-> TRUE, success |-> FALSE, file |-> 0,
                             error |-> Wrap(fetchResult.error)]
            /\ UNCHANGED <<files, log>>
       ELSE \E w \in WriteOutcomes :
            /\ log' = Append(log, Ev("write", "fs", fetchResult.value, w))
            /\ IF w = "ok"
               THEN /\ files' = files \cup {fetchResult.value}
                    /\ imageData' = [present |-> TRUE, success |-> TRUE,
                                     file |-> fetchResult.value, error |-> NoError]
               ELSE /\ imageData' = [present |-> TRUE, success |-> FALSE,
                                     file |-> 0, error |-> Err("fs", 0)]
                    /\ UNCHANGED files
    /\ pc' = "comic_return"
    /\ UNCHANGED <<inputVars, uiVars, retryVars, prVars, promptData, outcome>>

\* testGenerateImage after the call: process.exit(1) unless result.success.
TestGenerateImageEnd ==
    /\ pc = "comic_return"
    /\ entry = "comic"
    /\ outcome' = IF imageData.success THEN Exited(0) ELSE Exited(1)
    /\ pc' = "done"
    /\ UNCHANGED <<inputVars, uiVars, retryVars, prVars, promptData, imageData, files, log>>

\* The success field of the object runComicGenerationWorkflow returns after
\* step 3, made to follow the verification.
WorkflowSuccessIfConnected(connected) == connected

\* return { success: true, steps: {...} }: the literal true.
WorkflowSuccess(connected) == TRUE

\* What runComicGenerationWorkflow returns after step 3; botStatus.message is
\* carried in msg.
WorkflowResult(connected, message) ==
    [Returned(WorkflowSuccess(connected), NoError) EXCEPT !.msg = message]

\* The workflows after step 2: if (!imageData.success) throw.  Then step 3:
\* runFullWorkflow always verifies, runComicGenerationWorkflow only if a
\* context was given and otherwise returns; the standalone entry point calls
\* it without a context and exits 1 unless result.success.
WorkflowFinish ==
    /\ pc = "comic_return"
    /\ entry \in {"workflow", "standalone", "full"}
    /\ IF ~imageData.success
       THEN /\ outcome' = Caught(Wrap(imageData.error))
            /\ pc' = "done"
       ELSE IF entry = "full" \/ (entry = "workflow" /\ context)
       THEN /\ pc' = "bot_check"
            /\ UNCHANGED outcome
       ELSE /\ outcome' = IF entry = "standalone" THEN Exited(0)
                          ELSE WorkflowResult(FALSE, "No context provided")
            /\ pc' = "done"
    /\ UNCHANGED <<inputVars, uiVars, retryVars, prVars, promptData, imageData, files, log>>

\* ------------------------------------------- bot verification and posting

\* The platform calls checkSubredditAccess makes, in order.
AccessCalls == <<"getSubredditById", "getCurrentUser", "getTopPostsFromPage">>

\* The history of one platform call: its request and how it ended.
PlatformCall(site, name, ok) ==
    <<Ev("request", site, 0, name),
      Ev("response", site, 0, IF ok THEN "ok" ELSE "rejected")>>

\* The history of checkSubredditAccess when call number failAt rejects
\* (0: none does): the calls before it succeed, none follows it.
RECURSIVE AccessHistory(_, _)
AccessHistory(i, failAt) ==
    IF i > Len(AccessCalls) THEN <<>>
    ELSE PlatformCall("reddit", AccessCalls[i], i # failAt)
            \o (IF i = failAt THEN <<>> ELSE AccessHistory(i + 1, failAt))

\* Posting although the verification failed.
MayPostAlways(botConnected) == TRUE

\* if (!botConnected) throw new Error('Bot connection verification failed')
MayPost(botConnected) == botConnected

\* The rejected platform call made again.
OnPlatformRejectRetry == "retry"

\* A platform call that rejects is inside a try block: control goes to catch.
OnPlatformReject == "catch"

\* verifyBotConnection / initializeBotAccess: checkSubredditAccess returns true
\* when its three calls succeed and false when one rejects (without a context
\* the first one throws before anything is sent).  runComicGenerationWorkflow
\* then returns; runFullWorkflow throws unless connected.
BotVerify ==
    /\ pc = "bot_check"
    /\ \E failAt \in (IF context THEN 0..Len(AccessCalls) ELSE {1}) :
        LET connected == failAt = 0 IN
        /\ log' = log \o (IF context THEN AccessHistory(1, failAt) ELSE <<>>)
                      \o <<Ev("return", "verify", 0,
                              IF connected THEN "true" ELSE "false")>>
        /\ IF entry = "workflow"
           THEN /\ outcome' = WorkflowResult(connected,
                                IF connected THEN "Bot is ready for operations"
                                ELSE "Bot access verification failed")
                /\ pc' = "done"
           ELSE IF MayPost(connected)
           THEN /\ pc' = "post"
                /\ UNCHANGED outcome
           ELSE /\ outcome' = Caught(Err("Bot connection verification failed", 0))
                /\ pc' = "done"
    /\ UNCHANGED <<inputVars, uiVars, retryVars, prVars, promptData, imageData, files>>

\* postImageToReddit(context, imageData, promptData): getSubredditById, then
\* subreddit.submitImage with imageData.filepath; its catch rethrows into the
\* workflow's catch.  Then runFullWorkflow returns {success: true, ...}.
PostImage ==
    /\ pc = "post"
    /\ \E o \in (IF context THEN {"ok", "no subreddit", "rejected"}
                 ELSE {"no context"}) :
        /\ log' = log \o
            (CASE o = "no context" -> <<>>
               [] o = "no subreddit" ->
                    PlatformCall("reddit", "getSubredditById", FALSE)
               [] OTHER ->
                    PlatformCall("reddit", "getSubredditById", TRUE)
                    \o <<Ev("request", "submitImage", Sent("submitImage") + 1,
                            "post"),
                         Ev("response", "submitImage", Sent("submitImage") + 1,
                            o)>>)
        /\ IF o = "ok"
           THEN /\ outcome' = Returned(TRUE, NoError)
                /\ pc' = "done"
           ELSE IF OnPlatformReject = "catch"
           THEN /\ outcome' = Caught(Err(o, 0))
                /\ pc' = "done"
           ELSE /\ pc' = pc
                /\ UNCHANGED outcome
    /\ UNCHANGED <<inputVars, uiVars, retryVars, prVars, promptData, imageData, files>>

\* ------------------------------------------------------- the hosted handler

\* Every caught error reported as a finished post.
CatchToastSuccess(e) == Toast("Image posted successfully!", TRUE)

\* Every caught error reported as a post still being processed.
CatchToastProcessing(e) == Toast("Image posted! Processing on Reddit...", TRUE)

\* The catch block of onPress.
CatchToast(e) ==
    IF e.kind = "is being created asynchronously"
    THEN Toast("Image posted! Processing on Reddit...", TRUE)
    ELSE Toast("Failed to upload image to Reddit.", FALSE)

\* context.ui.showToast(text), which ends the handler.
ShowToast(t) ==
    /\ toasts' = Append(toasts, t.msg)
    /\ outcome' = t

\* onPress: both settings are read, then the two token checks.
StartHosted ==
    /\ pc = "start"
    /\ entry = "hosted"
    /\ log' = log \o <<Ev("read", "settings", 1, "github_token"),
                       Ev("read", "settings", 2, "polli_token")>>
    /\ IF ~githubToken
       THEN /\ ShowToast(CatchToast(Err("GitHub token not configured", 0)))
            /\ pc' = "done"
       ELSE IF ~pollinationsToken
       THEN /\ ShowToast(CatchToast(Err("Pollinations token not configured", 0)))
            /\ pc' = "done"
       ELSE /\ pc' = "h_prs"
            /\ UNCHANGED <<outcome, toasts>>
    /\ UNCHANGED <<inputVars, postTitle, retryVars, prVars, promptData, imageData, files>>

\* onPress of part_000: the image is a fixed link; no settings are read.
StartHostedLink ==
    /\ pc = "start"
    /\ entry = "hostedLink"
    /\ pc' = "h_upload"
    /\ UNCHANGED <<inputVars, uiVars, retryVars, prVars, promptData, imageData, files,
                   outcome, log>>

\* The three calls into pipeline.ts (getPRsAndCreatePrompt, generateImage,
\* generateTitleFromPRs): each sends its requests and returns or throws.
HostedPipeline ==
    /\ pc \in {"h_prs", "h_image", "h_title"}
    /\ \E ok \in BOOLEAN :
        /\ log' = log \o <<Ev("request", "pipeline", Sent("pipeline") + 1, pc),
                           Ev("response", "pipeline", Sent("pipeline") + 1,
                              IF ok THEN "ok" ELSE "throw")>>
        /\ IF ok
           THEN /\ pc' = CASE pc = "h_prs" -> "h_image"
                           [] pc = "h_image" -> "h_title"
                           [] OTHER -> "h_upload"
                /\ UNCHANGED <<outcome, toasts>>
           ELSE /\ ShowToast(CatchToast(Err("pipeline", Sent("pipeline") + 1)))
                /\ pc' = "done"
    /\ UNCHANGED <<inputVars, postTitle, retryVars, prVars, promptData, imageData, files>>

\* const imageAsset = await context.media.upload({...})
HostedUpload ==
    /\ pc = "h_upload"
    /\ \E o \in {"ok", "rejected"} :
        /\ log' = log \o <<Ev("request", "upload", Sent("upload") + 1, "media"),
                           Ev("response", "upload", Sent("upload") + 1, o)>>
        /\ IF o = "ok"
           THEN /\ pc' = "h_sleep"
                /\ UNCHANGED <<outcome, toasts>>
           ELSE IF OnPlatformReject = "catch"
           THEN /\ ShowToast(CatchToast(Err(o, 0)))
                /\ pc' = "done"
           ELSE /\ pc' = pc
                /\ UNCHANGED <<outcome, toasts>>
    /\ UNCHANGED <<inputVars, postTitle, retryVars, prVars, promptData, imageData, files>>

\* await new Promise((resolve) => setTimeout(resolve, 5000))
HostedSleep ==
    /\ pc = "h_sleep"
    /\ log' = Append(log, Ev("wait", "hosted", SUBMIT_DELAY_MS, "sleep"))
    /\ pc' = "h_submit"
    /\ UNCHANGED <<inputVars, uiVars, retryVars, prVars, promptData, imageData, files,
                   outcome>>

\* await context.reddit.submitPost({...}), then the success toast; a rejection
\* goes to the catch block.
HostedSubmit ==
    /\ pc = "h_submit"
    /\ \E o \in {"ok", "is being created asynchronously", "rejected"} :
        /\ log' = log \o <<Ev("request", "submit", Sent("submit") + 1, "post"),
                           Ev("response", "submit", Sent("submit") + 1, o)>>
        /\ IF o = "ok"
           THEN /\ ShowToast(Toast("Image posted successfully!", TRUE))
                /\ pc' = "done"
           ELSE IF OnPlatformReject = "catch"
           THEN /\ ShowToast(CatchToast(Err(o, 0)))
                /\ pc' = "done"
           ELSE /\ pc' = pc
                /\ UNCHANGED <<outcome, toasts>>
    /\ UNCHANGED <<inputVars, postTitle, retryVars, prVars, promptData, imageData, files>>

\* ---------------------------------------------------- generateTitleFromImage

\* A JavaScript value that is a string, and the value undefined.
JsString(str) == [defined |-> TRUE, str |-> str]
UndefinedString == [defined |-> FALSE, str |-> <<>>]

\* The characters String.prototype.trim removes.
WhiteSpace == {" ", "\n", "\t"}

RECURSIVE trimStart(_)
trimStart(str) ==
    IF str # <<>> /\ Head(str) \in WhiteSpace THEN trimStart(Tail(str)) ELSE str

RECURSIVE trimEnd(_)
trimEnd(str) ==
    IF str # <<>> /\ Last(str) \in WhiteSpace
    THEN trimEnd(SubSeq(str, 1, Len(str) - 1)) ELSE str

\* String.prototype.trim
trim(str) == trimEnd(trimStart(str))

\* How the chat-completions request can end: fetch rejects; response.json()
\* rejects; the body is the JSON value null; it has no choices (an error body);
\* the message's content is null, or is not a string; or it is a string.
TitleOutcomes ==
    {"reject", "bad json", "null body", "no choices", "null content",
     "content not a string",
     "text: empty", "text: blank", "text: plain", "text: padded", "text: inner"}

\* The content string of a response that has one.
ContentText(o) ==
    CASE o = "text: empty" -> <<>>
      [] o = "text: blank" -> <<" ", "\n">>
      [] o = "text: plain" -> <<"H", "i">>
      [] o = "text: padded" -> <<" ", "H", "i", "\n">>
      [] o = "text: inner" -> <<"\t", "H", " ", "i", " ">>

\* The outcomes that throw inside the try block: the two rejections, and the
\* TypeError of reading choices of null or calling trim on what has none.
TitleThrows(o) ==
    o \in {"reject", "bad json", "null body", "content not a string"}

\* data.choices?.[0]?.message?.content?.trim()
TrimmedContent(o) ==
    IF o \in {"no choices", "null content"} THEN UndefinedString
    ELSE JsString(trim(ContentText(o)))

FixedTitle(text) == [text |-> <<>>, fixed |-> text]

\* The trimmed content returned as it is, empty or not.
TitleOrDefaultNone(v) == [text |-> v.str, fixed |-> ""]

\* v || 'Pollinations Update'
TitleOrDefault(v) ==
    IF ~v.defined \/ v.str = <<>> THEN FixedTitle("Pollinations Update")
    ELSE [text |-> v.str, fixed |-> ""]

\* image_post.js when loaded: generateTitleFromImage(testImageDesc) up to its
\* fetch, which sends `Bearer ${process.env.POLLINATIONS_TOKEN}`.
TitleRequest ==
    /\ pc = "start"
    /\ entry = "title"
    /\ log' = Append(log, Ev("request", "title", Sent("title") + 1,
                             IF envToken THEN "bearer" ELSE "bearer-undefined"))
    /\ pc' = "title_await"
    /\ UNCHANGED <<inputVars, uiVars, retryVars, prVars, promptData, imageData, files,
                   outcome>>

\* The request completes and generateTitleFromImage returns its title: the
\* catch block's, or the trimmed content or its default.  The caller logs it
\* and the script ends.
TitleRespond ==
    /\ pc = "title_await"
    /\ \E o \in TitleOutcomes :
        /\ log' = Append(log, Ev("response", "title", Sent("title"), o))
        /\ postTitle' = IF TitleThrows(o) THEN FixedTitle("Pollinations Daily Update")
                        ELSE TitleOrDefault(TrimmedContent(o))
    /\ outcome' = Exited(0)
    /\ pc' = "done"
    /\ UNCHANGED <<inputVars, toasts, retryVars, prVars, promptData, imageData, files>>

\* ------------------------------------------------------------ setup-secrets

\* The .env file is read, then: if (!githubToken || !pollinationsToken) exit 1.
StartSetup ==
    /\ pc = "start"
    /\ entry = "setup"
    /\ IF ~githubToken \/ ~pollinationsToken
       THEN /\ outcome' = Exited(1)
            /\ pc' = "done"
       ELSE /\ pc' = "setup_github"
            /\ UNCHANGED outcome
    /\ UNCHANGED <<inputVars, uiVars, retryVars, prVars, promptData, imageData, files, log>>

\* execSync(`echo ... | npx devvit settings set <name>`): the two commands in
\* turn; a failing command throws into catch, which exits 1.
SetupCommand ==
    /\ pc \in {"setup_github", "setup_polli"}
    /\ \E ok \in BOOLEAN :
        /\ log' = Append(log, Ev("command", "devvit", Len(Events("command", "devvit")) + 1,
                                 IF pc = "setup_github" THEN "github_token"
                                 ELSE "polli_token"))
        /\ IF ~ok
           THEN /\ outcome' = Exited(1)
                /\ pc' = "done"
           ELSE IF pc = "setup_github"
           THEN /\ pc' = "setup_polli"
                /\ UNCHANGED outcome
           ELSE /\ outcome' = Exited(0)
                /\ pc' = "done"
    /\ UNCHANGED <<inputVars, uiVars, retryVars, prVars, promptData, imageData, files>>

\* ------------------------------------------------------------ specifications

\* The entry points that read the image-API token: the others ignore the
\* argument (fetchImageWithRetry sends no token), so it is left unset there.
ReadsPollinationsToken == {"hosted", "setup", "generateImage"}

InitCommon ==
    /\ prsArg = Undefined
    /\ githubToken \in BOOLEAN
    /\ pollinationsToken \in (IF entry \in ReadsPollinationsToken THEN BOOLEAN
                              ELSE {FALSE})
    /\ envToken \in (IF entry \in {"generateImage", "title"} THEN BOOLEAN ELSE {FALSE})
    /\ pc = "start"
    /\ attempt = 0
    /\ errors = <<>>
    /\ fetchResult = NoResult
    /\ callArgs = NoArgs
    /\ cursor = 0
    /\ pageNum = 1
    /\ allPRs = <<>>
    /\ fetched = <<>>
    /\ promptData = NoPrompt
    /\ imageData = NoImage
    /\ files = {}
    /\ toasts = <<>>
    /\ postTitle = NoTitle
    /\ outcome = NoOutcome
    /\ log = <<>>

\* The retrying fetch alone, called directly, under every policy
\* maxAttempts = 1..MaxPolicy.  The source fixes the limit (MAX_RETRIES = 3,
\* the value Init gives maxAttempts) and reads it in one place, the test
\* attempt < MAX_RETRIES - 1 that ShouldRetry models; the three copies of the
\* function (fetchImageWithRetry, generateImage twice) share that test, the
\* delay and the try/catch, and differ only in the request they build.
InitPolicy ==
    /\ entry = "generateImage"
    /\ InitCommon
    /\ maxAttempts \in 1..MaxPolicy
    /\ context = FALSE
    /\ yesterdayMs = DAY_MS

NextPolicy ==
    \/ StartGenerateImage
    \/ FetchDelay
    \/ FetchIssue
    \/ FetchRespond

SpecPolicy == InitPolicy /\ [][NextPolicy]_vars

Entries == {"hosted", "hostedLink", "standalone", "workflow", "full", "prs",
            "comic", "generateImage", "setup", "title"}

\* One run of any entry point, with the source's MAX_RETRIES, on a day that
\* follows a 24-hour day.  The menu handlers always have a context, the
\* workflows may be given one, the scripts have none.
Init ==
    /\ entry \in Entries
    /\ InitCommon
    /\ maxAttempts = MAX_RETRIES
    /\ context \in CASE entry \in {"hosted", "hostedLink"} -> {TRUE}
                     [] entry \in {"workflow", "full"} -> BOOLEAN
                     [] OTHER -> {FALSE}
    /\ yesterdayMs = DAY_MS

Next ==
    \/ StartGenerateImage
    \/ FetchDelay
    \/ FetchIssue
    \/ FetchRespond
    \/ StartPRs
    \/ StartWorkflow
    \/ StartFullWorkflow
    \/ StartStandalone
    \/ PRCall
    \/ PRRequest
    \/ PRRespond
    \/ TitleRequest
    \/ TitleRespond
    \/ StartComic
    \/ WorkflowGenerate
    \/ ComicResume
    \/ TestGenerateImageEnd
    \/ WorkflowFinish
    \/ BotVerify
    \/ PostImage
    \/ StartHosted
    \/ StartHostedLink
    \/ HostedPipeline
    \/ HostedUpload
    \/ HostedSleep
    \/ HostedSubmit
    \/ StartSetup
    \/ SetupCommand

Spec == Init /\ [][Next]_vars

\* getPRsAndCreatePrompt alone, on a day that follows a local day of any
\* length.
InitRange ==
    /\ entry = "prs"
    /\ InitCommon
    /\ maxAttempts = MAX_RETRIES
    /\ context = FALSE
    /\ yesterdayMs \in DayLengths

NextRange ==
    \/ StartPRs
    \/ PRCall
    \/ PRRequest
    \/ PRRespond

SpecRange == InitRange /\ [][NextRange]_vars

\* createMergedPrompt(prs) called directly (it is exported).
CallCreateMergedPrompt ==
    /\ pc = "start"
    /\ entry = "createMergedPrompt"
    /\ promptData' = createMergedPrompt(prsArg)
    /\ outcome' = Returned(TRUE, NoError)
    /\ pc' = "done"
    /\ UNCHANGED <<inputVars, uiVars, retryVars, prVars, imageData, files, log>>

\* The list of n pull requests whose titles run through Titles from position
\* off on; their numbers are distinct and not in increasing order.
TitledPRs(n, off) ==
    [i \in 1..n |->
        PullRequest((i * 2 + off) % (2 * MaxListLen + 1),
                    Titles[((i + off) % Len(Titles)) + 1], startDate)]

\* The arguments createMergedPrompt is called with: none, every list of at
\* most two pull requests over all titles, and longer lists, past the limit
\* of the highlights, of every rotation of the titles.
PromptInputs ==
    {Undefined}
    \cup {JsArray([i \in 1..Len(ts) |-> PullRequest(Len(ts) + 1 - i, ts[i], startDate)]) :
            ts \in SeqsUpTo({Titles[k] : k \in 1..Len(Titles)}, 2)}
    \cup {JsArray(TitledPRs(n, off)) : n \in 0..MaxListLen, off \in 1..Len(Titles)}

\* createMergedPrompt alone, on every argument of PromptInputs.
InitPrompt ==
    /\ entry = "createMergedPrompt"
    /\ githubToken = FALSE
    /\ pollinationsToken = FALSE
    /\ envToken = FALSE
    /\ maxAttempts = MAX_RETRIES
    /\ context = FALSE
    /\ yesterdayMs = DAY_MS
    /\ prsArg \in PromptInputs
    /\ pc = "start"
    /\ attempt = 0
    /\ errors = <<>>
    /\ fetchResult = NoResult
    /\ callArgs = NoArgs
    /\ cursor = 0
    /\ pageNum = 1
    /\ allPRs = <<>>
    /\ fetched = <<>>
    /\ promptData = NoPrompt
    /\ imageData = NoImage
    /\ files = {}
    /\ toasts = <<>>
    /\ postTitle = NoTitle
    /\ outcome = NoOutcome
    /\ log = <<>>

NextPrompt == CallCreateMergedPrompt

SpecPrompt == InitPrompt /\ [][NextPrompt]_vars

\* The retrying fetch under fair scheduling: the runtime runs a continuation
\* that is ready, a timer that was set fires, and every request that was
\* issued completes (it is answered, rejects or times out).
SpecPolicyFair == SpecPolicy /\ WF_vars(NextPolicy)

\* ------------------------------------------------------------------ claims

ImageRequests == Events("request", "image")
ImageResponses == Events("response", "image")
ImageWaits == Events("wait", "image")
IsImage(e, ev) == e.site = "image" /\ e.ev = ev

\* C1: under every policy maxAttempts = N, an operation that fails on every
\* invocation is invoked exactly N times and the call then raises: never an
\* (N+1)-th invocation, never a raise or a stop after fewer than N failures.
C1_ExactlyMaxAttempts ==
    LET resp == ImageResponses
        allFailed == \A i \in 1..Len(resp) : resp[i].kind # "ok"
    IN /\ Len(ImageRequests) <= maxAttempts
       /\ fetchResult.status = "raised" =>
            /\ Len(ImageRequests) = maxAttempts
            /\ Len(resp) = maxAttempts
            /\ allFailed
       /\ (allFailed /\ Len(resp) = maxAttempts) => fetchResult.status = "raised"
       /\ (allFailed /\ Len(resp) < maxAttempts) =>
            /\ fetchResult.status = "none"
            /\ pc \in {"start", "img_delay", "img_fetch", "img_await"}

\* C1 witness: the source's policy, three failed invocations, the call raised.
C1_Witness ==
    /\ maxAttempts = MAX_RETRIES
    /\ fetchResult.status = "raised"
    /\ Len(ImageRequests) = MAX_RETRIES

\* C2: an operation that first succeeds on attempt k <= N is invoked exactly k
\* times, the call returns the buffer of that k-th invocation, and nothing
\* (no wait, no request) follows a successful response.
C2_FirstSuccessReturned ==
    LET resp == ImageResponses IN
    /\ \A k \in 1..Len(resp) : resp[k].kind = "ok" =>
            /\ k <= maxAttempts
            /\ \A j \in 1..(k - 1) : resp[j].kind # "ok"
            /\ Len(resp) = k
            /\ Len(ImageRequests) = k
            /\ fetchResult.status = "ok"
            /\ fetchResult.value = resp[k].n
            /\ resp[k].n = k
    /\ \A i \in 1..Len(log) : (IsImage(log[i], "response") /\ log[i].kind = "ok") =>
            \A j \in (i + 1)..Len(log) : log[j].site # "image"
    /\ fetchResult.status = "ok" => (Len(resp) >= 1 /\ Last(resp).kind = "ok")

\* C2 witness: the first attempt failed, the second succeeded and was returned.
C2_Witness ==
    /\ fetchResult.status = "ok"
    /\ fetchResult.value = 2
    /\ Len(ImageRequests) = 2

\* C3: the wait before retry k is initialDelay * multiplier^(k-1) seconds
\* (2, 4, 8, ...); no wait precedes the first invocation; every wait stands
\* between a failed invocation and the next one, one wait per retry.
C3_BackoffDelays ==
    LET w == ImageWaits IN
    /\ \A k \in 1..Len(w) : w[k].n = INITIAL_RETRY_DELAY * Pow(BACKOFF_BASE, k - 1)
    /\ Len(w) >= 1 => w[1].n = 2
    /\ Len(w) >= 2 => w[2].n = 4
    /\ Len(w) >= 3 => w[3].n = 8
    /\ \A i \in 1..Len(log) : IsImage(log[i], "wait") =>
            /\ i > 1
            /\ IsImage(log[i - 1], "response")
            /\ log[i - 1].kind # "ok"
            /\ i < Len(log) => IsImage(log[i + 1], "request")
    /\ \A i \in 1..Len(log) : IsImage(log[i], "request") =>
            Len(SelectSeq(SubSeq(log, 1, i), LAMBDA e : IsImage(e, "wait")))
                = log[i].n - 1

\* C3 witness: three retries were made, so three waits were inserted.
C3_Witness ==
    /\ Len(ImageWaits) = 3
    /\ Len(ImageRequests) = 4

\* C4: with maxAttempts = 3, initial delay 2 and multiplier 2, a run whose
\* operation fails twice and then succeeds makes exactly 3 invocations, waits
\* 2 + 4 = 6 seconds in all and returns the third invocation's buffer.
C4_TwoFailuresThenSuccess ==
    LET resp == ImageResponses
        w == ImageWaits
    IN (/\ maxAttempts = 3
        /\ INITIAL_RETRY_DELAY = 2
        /\ BACKOFF_BASE = 2
        /\ Len(resp) = 3
        /\ resp[1].kind # "ok"
        /\ resp[2].kind # "ok"
        /\ resp[3].kind = "ok")
       => /\ Len(ImageRequests) = 3
          /\ [i \in 1..Len(w) |-> w[i].n] = <<2, 4>>
          /\ SumSeq([i \in 1..Len(w) |-> w[i].n]) = 6
          /\ fetchResult.status = "ok"
          /\ fetchResult.value = resp[3].n

\* C4 witness: two failures, then a success on the third invocation.
C4_Witness ==
    /\ Len(ImageResponses) = 3
    /\ ImageResponses[1].kind = "neterr"
    /\ ImageResponses[2].kind = "http"
    /\ ImageResponses[3].kind = "ok"
    /\ fetchResult.status = "ok"

C6_LastErrorSurfaces ==
    fetchResult.status = "raised" =>
        LET last == Last(ImageResponses)
            e == Err(last.kind, last.n)
        IN /\ last.n = maxAttempts
           /\ fetchResult.error = e
           /\ (entry = "generateImage") => outcome = Threw(e)
           /\ imageData.present => (~imageData.success /\ imageData.error = Wrap(e))
           /\ (entry = "workflow" /\ pc = "done") =>
                outcome = Returned(FALSE, Wrap(Wrap(e)))

\* C6 witness: all three attempts failed, the first and the last differently,
\* and generateAndSaveComicImage returned its failure.
C6_Witness ==
    /\ fetchResult.status = "raised"
    /\ imageData.present
    /\ Len(ImageResponses) = 3
    /\ ImageResponses[1].kind # ImageResponses[3].kind

GithubRequests == Events("request", "github")
GithubFailed ==
    \E i \in 1..Len(log) :
        log[i].site = "github" /\ log[i].ev = "response" /\ log[i].kind # "page"

\* The token the entry point cannot do its work without is empty or undefined:
\* both tokens for the hosted handler and setup-secrets, the GitHub token where
\* pull requests are fetched, the image-API token (argument or environment)
\* where generateImage sends it as the bearer.
RequiredTokenMissing ==
    CASE entry \in {"hosted", "setup"} -> ~githubToken \/ ~pollinationsToken
      [] entry \in {"standalone", "workflow", "full", "prs"} -> ~githubToken
      [] entry = "generateImage" -> ~(pollinationsToken \/ envToken)
      [] OTHER -> FALSE

\* C7: in a run where a required token is missing, no HTTP request and no
\* platform command is ever issued, in every entry point.
C7_NoCallWithoutToken ==
    RequiredTokenMissing =>
        \A i \in 1..Len(log) : log[i].ev \notin {"request", "command"}

C9_Non2xxRetriedLikeNetworkFailure ==
    \A i \in 1..Len(log) :
        (IsImage(log[i], "response") /\ log[i].kind \in {"http", "neterr"}) =>
            LET k == log[i].n IN
            IF k < maxAttempts
            THEN /\ (i = Len(log)) => (pc = "img_delay" /\ fetchResult.status = "none")
                 /\ (i + 1 <= Len(log)) =>
                        log[i + 1] = Ev("wait", "image",
                                        INITIAL_RETRY_DELAY * Pow(BACKOFF_BASE, k - 1),
                                        "sleep")
                 /\ (i + 2 <= Len(log)) =>
                        (IsImage(log[i + 2], "request") /\ log[i + 2].n = k + 1)
            ELSE /\ i = Len(log) \/ log[i + 1].site # "image"
                 /\ fetchResult.status = "raised"
                 /\ fetchResult.error = Err(log[i].kind, k)

\* C9 witness: three non-2xx responses in a row, after which the call raised.
C9_Witness ==
    /\ Len(ImageResponses) = 3
    /\ \A i \in 1..3 : ImageResponses[i].kind = "http"
    /\ fetchResult.status = "raised"
    /\ fetchResult.error.kind = "http"

\* A network step of the run failed for good: a page request of the PR fetch,
\* the image generation (its retries exhausted), a pipeline call, the media
\* upload or the post submission.
StepFailed ==
    \/ GithubFailed
    \/ fetchResult.status = "raised"
    \/ \E i \in 1..Len(log) :
        /\ log[i].ev = "response"
        /\ log[i].site \in {"pipeline", "upload", "submit"}
        /\ log[i].kind \in {"throw", "rejected"}

\* C10: a run of a top-level workflow in which a network step failed ends in a
\* failure outcome: the standalone entry point exits non-zero, the workflow
\* returns success = false, the hosted handler shows the failure toast.
C10_FailedStepReportsFailure ==
    (pc = "done" /\ entry \in {"standalone", "workflow", "hosted"} /\ StepFailed) =>
        /\ ~outcome.success
        /\ entry = "standalone" => outcome = Exited(1)
        /\ entry = "hosted" => outcome = Toast("Failed to upload image to Reddit.", FALSE)

\* The media upload and the two post-submission calls.
PostingSites == {"upload", "submit", "submitImage"}

\* C11: within one run of a workflow or one press of the menu item, the media
\* upload, submitPost and submitImage are each invoked at most once, whether
\* they succeed or fail: a rejected call ends the run and nothing is requested
\* after it.
C11_PlatformCallsAtMostOnce ==
    /\ \A site \in PostingSites :
        /\ Len(Events("request", site)) <= 1
        /\ Len(Events("response", site)) <= 1
    /\ \A i \in 1..Len(log) :
        (log[i].ev = "response" /\ log[i].site \in PostingSites /\ log[i].kind # "ok")
            => /\ i = Len(log)
               /\ pc = "done"

\* C11 witness: a workflow run whose submitImage call was rejected, and a press
\* whose upload succeeded and whose submitPost call was rejected, both ended.
C11_Witness ==
    /\ pc = "done"
    /\ \/ /\ entry = "full"
          /\ Events("response", "submitImage") = <<Ev("response", "submitImage", 1, "rejected")>>
       \/ /\ entry = "hostedLink"
          /\ Events("response", "upload") = <<Ev("response", "upload", 1, "ok")>>
          /\ Events("response", "submit") = <<Ev("response", "submit", 1, "rejected")>>

\* Bot verification returned v ("true" or "false") in this run.
VerifyReturned(v) == Events("return", "verify") = <<Ev("return", "verify", 0, v)>>

\* The posting step was entered and did not succeed.
PostFailed ==
    /\ VerifyReturned("true")
    /\ pc = "done"
    /\ \A i \in 1..Len(log) :
        ~(log[i].ev = "response" /\ log[i].site = "submitImage" /\ log[i].kind = "ok")

\* C12: in runFullWorkflow, once the image file has been written it stays on
\* disk in every later state of the run, and a run in which bot verification
\* or posting then failed ends with success = false and the file in place.
C12_NoRollbackOfImageFile ==
    entry = "full" =>
        /\ \A i \in 1..Len(log) :
            (log[i].ev = "write" /\ log[i].kind = "ok") => log[i].n \in files
        /\ (imageData.success /\ pc = "done" /\ (VerifyReturned("false") \/ PostFailed))
            => /\ outcome.kind = "return"
               /\ ~outcome.success
               /\ imageData.file \in files
               /\ Cardinality(files) = 1

\* C12 witness: the file was written, then verification passed and submitImage
\* was rejected; the workflow returned its failure.
C12_Witness ==
    /\ entry = "full"
    /\ imageData.success
    /\ imageData.file \in files
    /\ PostFailed
    /\ Len(Events("response", "submitImage")) = 1
    /\ outcome = Returned(FALSE, Err("rejected", 0))

\* C13: getMergedPRsFromPreviousDay returns exactly the pull requests of the
\* fetched pages that were merged on the previous day, from the start of
\* yesterday (inclusive) to the start of today (exclusive), each once and in
\* the order they were fetched.
C13_ExactlyPreviousDay ==
    (entry = "prs" /\ promptData.present) =>
        allPRs = SelectSeq(fetched, LAMBDA pr :
                    StartOfYesterday <= pr.mergedAt /\ pr.mergedAt < endDate)

\* The step of runFullWorkflow the i-th entry of the history belongs to: 1 PR
\* fetch, 2 image generation, 3 bot verification, 4 post.
StepOf(i) ==
    CASE log[i].site = "github" -> 1
      [] log[i].site \in {"image", "fs"} -> 2
      [] log[i].site = "verify" -> 3
      [] log[i].site = "reddit" ->
            IF \E j \in 1..(i - 1) : log[j].site = "verify" THEN 4 ELSE 3
      [] OTHER -> 4

\* C14: runFullWorkflow runs PR fetch, image generation, bot verification and
\* post in this order; a step starts only when the one before it succeeded
\* (prompt data returned, image success = true, verification true), so a
\* failed step is followed by no call of a later step, and submitImage is
\* called only after all three.
C14_StepsInOrder ==
    entry = "full" =>
        /\ \A i, j \in 1..Len(log) : i < j => StepOf(i) <= StepOf(j)
        /\ \A i \in 1..Len(log) :
            /\ StepOf(i) >= 2 => promptData.present
            /\ StepOf(i) >= 3 =>
                /\ imageData.success
                /\ \E j \in 1..(i - 1) : log[j].ev = "write" /\ log[j].kind = "ok"
            /\ StepOf(i) = 4 =>
                \E j \in 1..(i - 1) : log[j] = Ev("return", "verify", 0, "true")
        /\ (pc = "done" /\ ~promptData.present) =>
                \A i \in 1..Len(log) : StepOf(i) = 1
        /\ (imageData.present /\ ~imageData.success) =>
                \A i \in 1..Len(log) : StepOf(i) <= 2
        /\ VerifyReturned("false") =>
                /\ \A i \in 1..Len(log) : StepOf(i) <= 3
                /\ pc = "done"
                /\ ~outcome.success
        /\ outcome.success =>
                \E i \in 1..Len(log) :
                    log[i] = Ev("response", "submitImage", 1, "ok")

\* C14 witness: a run that fetched a page, retried the image request, passed
\* verification and posted.
C14_Witness ==
    /\ entry = "full"
    /\ outcome = Returned(TRUE, NoError)
    /\ Len(GithubRequests) >= 1
    /\ Len(ImageRequests) = 2
    /\ VerifyReturned("true")
    /\ Len(Events("request", "submitImage")) = 1

\* C15: runComicGenerationWorkflow (called directly or by the standalone
\* entry point) never invokes a media upload or post-submission call, and a
\* run whose PR step and image generation succeeded ends in success whatever
\* bot verification did: passed, failed, or skipped for want of a context,
\* which only the returned bot-verification message tells apart.
C15_WorkflowNeverPosts ==
    entry \in {"workflow", "standalone"} =>
        /\ \A i \in 1..Len(log) : log[i].site \notin PostingSites
        /\ (pc = "done" /\ promptData.present /\ imageData.success) =>
            /\ outcome.success
            /\ entry = "standalone" => outcome = Exited(0)
            /\ entry = "workflow" =>
                /\ outcome.kind = "return"
                /\ outcome.error = NoError
                /\ outcome.msg =
                     CASE VerifyReturned("true") -> "Bot is ready for operations"
                       [] VerifyReturned("false") -> "Bot access verification failed"
                       [] OTHER -> "No context provided"
                /\ context <=> (VerifyReturned("true") \/ VerifyReturned("false"))

\* C15 witness: the workflow was given a context, its verification failed at
\* the second platform call, and it returned success.
C15_Witness ==
    /\ entry = "workflow"
    /\ context
    /\ pc = "done"
    /\ VerifyReturned("false")
    /\ Len(Events("request", "reddit")) = 2
    /\ outcome.success

\* The requests of a call site that were issued and have not completed.
InFlight(site) == Sent(site) - Len(Events("response", site))

\* The call sites that issue requests in a loop: the retrying image fetch and
\* the GitHub pagination.
LoopingSites == {"image", "github"}

\* C16: at every moment at most one request of a call site is in flight (one
\* exactly while the call awaits its fetch); a retry's request is issued only
\* after the previous attempt's request completed with a failure and the
\* backoff wait that follows it elapsed, and a page request only after the
\* previous page's response.
C16_OneRequestInFlight ==
    /\ \A site \in LoopingSites : InFlight(site) \in {0, 1}
    /\ InFlight("image") = 1 <=> pc = "img_await"
    /\ InFlight("github") = 1 <=> pc = "pr_await"
    /\ \A i \in 1..Len(log) : (IsImage(log[i], "request") /\ log[i].n > 1) =>
            /\ i > 2
            /\ IsImage(log[i - 1], "wait")
            /\ IsImage(log[i - 2], "response")
            /\ log[i - 2].n = log[i].n - 1
            /\ log[i - 2].kind # "ok"
    /\ \A i \in 1..Len(log) :
            (log[i].ev = "request" /\ log[i].site = "github" /\ i > 1) =>
                /\ log[i - 1].ev = "response"
                /\ log[i - 1].site = "github"
                /\ log[i - 1].kind = "page"

\* C16 witness: the third image request is in flight after two failed
\* attempts and their two waits, in a run that had fetched two pages.
C16_Witness ==
    /\ InFlight("image") = 1
    /\ Sent("image") = 3
    /\ Len(ImageWaits) = 2
    /\ Sent("github") = 2
    /\ InFlight("github") = 0

FileWrites == SelectSeq(log, LAMBDA e : e.ev = "write")

\* C17: generateAndSaveComicImage writes the image file only after its
\* retrying fetch has finished, and only when it finished with a success: a
\* write directly follows the successful response, of which it writes the
\* buffer, and no image request or wait follows it; while the fetch runs and
\* when all attempts failed nothing is written, and after all attempts failed
\* the result is {success: false}.
C17_WriteAfterSuccessfulFetch ==
    /\ Len(FileWrites) <= 1
    /\ \A i \in 1..Len(log) : log[i].ev = "write" =>
            /\ i > 1
            /\ IsImage(log[i - 1], "response")
            /\ log[i - 1].kind = "ok"
            /\ log[i].n = log[i - 1].n
            /\ fetchResult.status = "ok"
            /\ \A j \in (i + 1)..Len(log) : log[j].site # "image"
    /\ files # {} => (Len(FileWrites) = 1 /\ files = {FileWrites[1].n})
    /\ pc \in {"img_delay", "img_fetch", "img_await"} =>
            /\ FileWrites = <<>>
            /\ files = {}
            /\ ~imageData.present
    /\ fetchResult.status = "raised" =>
            /\ FileWrites = <<>>
            /\ files = {}
            /\ ~imageData.success
            /\ pc \in {"comic_return", "done"} =>
                    (imageData.present \/ entry = "generateImage")

\* C17 witness: all three attempts failed and generateAndSaveComicImage
\* returned {success: false} with nothing written.
C17_Witness ==
    /\ Len(ImageResponses) = 3
    /\ fetchResult.status = "raised"
    /\ imageData.present
    /\ ~imageData.success
    /\ files = {}
    /\ pc = "comic_return"

\* C18: the retrying fetch always terminates: when every request that was
\* issued completes and every timer fires, each call eventually returns a
\* success or raises, for every sequence of outcomes and every policy, and at
\* no time has it made more than maxAttempts invocations or more than
\* maxAttempts - 1 waits.
C18_FetchTerminates ==
    /\ <>(fetchResult.status \in {"ok", "raised"} /\ pc = "done")
    /\ [](/\ Len(ImageRequests) <= maxAttempts
          /\ Len(ImageWaits) <= maxAttempts - 1
          /\ Len(ImageWaits) <= Len(ImageRequests))

\* C18 witness: under the largest policy the call raised after exactly
\* maxAttempts invocations and maxAttempts - 1 waits.
C18_Witness ==
    /\ maxAttempts = MaxPolicy
    /\ pc = "done"
    /\ fetchResult.status = "raised"
    /\ Len(ImageRequests) = maxAttempts
    /\ Len(ImageWaits) = maxAttempts - 1

\* The explicit bounded loop with an accumulated attempt count, run on the
\* outcomes outs under the limit n:
\*     count := 0
\*     while count < n:
\*         if count > 0: wait initialDelay * multiplier^(count - 1)
\*         invoke;  on success return its value;  lastError := its error
\*         count := count + 1
\*     raise lastError
\* LoopFrom is the loop at the head of an iteration.  It yields the history
\* the loop produces and what it settles with; when outs ends before the loop
\* does, the last invocation is left pending and the result open.
RECURSIVE LoopFrom(_, _, _, _, _)
LoopFrom(count, outs, n, trace, lastError) ==
    IF count >= n
    THEN [trace |-> trace,
          result |-> [status |-> "raised", value |-> 0, error |-> lastError]]
    ELSE LET waited == IF count > 0
                       THEN Append(trace,
                                [ev |-> "wait", n |->
                                    INITIAL_RETRY_DELAY * Pow(BACKOFF_BASE, count - 1),
                                 kind |-> "sleep"])
                       ELSE trace
             invoked == Append(waited,
                            [ev |-> "request", n |-> count + 1, kind |-> ImageAuth])
         IN IF count + 1 > Len(outs)
            THEN [trace |-> invoked, result |-> NoResult]
            ELSE LET o == outs[count + 1]
                     answered == Append(invoked,
                                    [ev |-> "response", n |-> count + 1, kind |-> o])
                 IN IF o = "ok"
                    THEN [trace |-> answered,
                          result |-> [status |-> "ok", value |-> count + 1,
                                      error |-> NoError]]
                    ELSE LoopFrom(count + 1, outs, n, answered,
                                  [kind |-> o, n |-> count + 1, wraps |-> 0])

BoundedLoop(outs, n) == LoopFrom(0, outs, n, <<>>, NoError)

\* The image events of the history, as the loop writes them.
ImageTrace ==
    LET img == SelectSeq(log, LAMBDA e : e.site = "image")
    IN [i \in 1..Len(img) |->
            [ev |-> img[i].ev, n |-> img[i].n, kind |-> img[i].kind]]

IsPrefix(s, t) == Len(s) <= Len(t) /\ SubSeq(t, 1, Len(s)) = s

\* C19: the recursive retry behaves as the explicit bounded loop does: on the
\* outcomes its invocations have had so far, the loop makes the same
\* invocations with the same waits before them, and once the recursive call
\* has settled the loop settles with the same value or the same error; before
\* that the recursion has done a part of what the loop does.
C19_RecursionEqualsLoop ==
    LET outs == [i \in 1..Len(ImageResponses) |-> ImageResponses[i].kind]
        loop == BoundedLoop(outs, maxAttempts)
    IN pc # "start" =>
        IF fetchResult.status # "none"
        THEN /\ ImageTrace = loop.trace
             /\ fetchResult = loop.result
        ELSE /\ IsPrefix(ImageTrace, loop.trace)
             /\ Len(loop.trace) - Len(ImageTrace) <= 2
             /\ loop.result = NoResult

\* C19 witness: a call that failed twice, waited twice and then succeeded on
\* its third invocation.
C19_Witness ==
    /\ fetchResult.status = "ok"
    /\ fetchResult.value = 3
    /\ Len(ImageTrace) = 8
    /\ maxAttempts > 3

\* C20: every attempt of one retrying fetch call issues the same request:
\* the same encoded prompt, seed, model parameters and Authorization header
\* as the first, built from the arguments the caller passed; from one attempt
\* to the next only the attempt counter changes, by exactly 1 per failed
\* attempt (the k-th request is made with attempt = k - 1).
C20_SameRequestEveryAttempt ==
    LET reqs == ImageRequests IN
    /\ \A i \in 1..Len(reqs) :
        /\ reqs[i].req = reqs[1].req
        /\ reqs[i].kind = reqs[1].kind
        /\ reqs[i].req = ImageRequest(callArgs)
        /\ entry # "generateImage" =>
            /\ reqs[i].req.prompt = Prompt(PromptText(promptData), TRUE, TRUE)
            /\ reqs[i].req.seed \in Seeds
            /\ reqs[i].req.config = IMAGE_CONFIG
    /\ pc \in {"img_delay", "img_fetch"} =>
        /\ attempt = Len(reqs)
        /\ attempt = Len(ImageResponses)
    /\ pc = "img_await" => attempt = Len(reqs) - 1
    /\ \A k \in 1..Len(reqs) : reqs[k].n = k

\* C20 witness: the third request of a call that drew the largest seed is in
\* flight, with attempt = 2.
C20_Witness ==
    /\ pc = "img_await"
    /\ Len(ImageRequests) = 3
    /\ attempt = 2
    /\ callArgs.seed = MAX_SEED - 1
    /\ ImageRequests[3].req.seed = MAX_SEED - 1

GithubResponses == Events("response", "github")

\* C21: getMergedPRsFromPreviousDay requests the pages one by one and in
\* order: the first request carries cursor = null, the k-th the endCursor of
\* the (k-1)-th response, which was a page with hasNextPage = true; the k-th
\* response is page k; and after the first page with hasNextPage = false
\* nothing more is requested and the function has returned.
C21_PagesRequestedInCursorOrder ==
    LET reqs == GithubRequests
        resps == GithubResponses
    IN /\ Len(reqs) >= 1 => reqs[1].n = 0
       /\ Len(resps) <= Len(reqs)
       /\ \A k \in 2..Len(reqs) :
            /\ resps[k - 1].kind = "page"
            /\ resps[k - 1].more
            /\ reqs[k].n = resps[k - 1].n
       /\ \A k \in 1..Len(resps) : resps[k].n = k
       /\ \A k \in 1..Len(resps) : (resps[k].kind = "page" /\ ~resps[k].more) =>
            /\ k = Len(resps)
            /\ Len(reqs) = k
            /\ promptData.present
            /\ pc \notin {"pr_request", "pr_await"}

\* C21 witness: two pages were served, the second reported hasNextPage =
\* false, and the function returned after exactly two requests.
C21_Witness ==
    /\ Len(GithubResponses) = 2
    /\ GithubResponses[1].more
    /\ GithubResponses[2].kind = "page"
    /\ ~GithubResponses[2].more
    /\ Len(GithubRequests) = 2
    /\ GithubRequests[2].n = 1
    /\ promptData.present

\* C22: a page request that throws, or a response carrying GraphQL errors,
\* ends pagination without raising: no GitHub request follows it, the function
\* returns the PRs accumulated from the pages before it (possibly none) and
\* the prompt is built from them; getPRsAndCreatePrompt returns normally, and
\* a workflow goes on to image generation as after a successful fetch.
C22_PageFailureEndsPagination ==
    \A i \in 1..Len(log) :
        (log[i].site = "github" /\ log[i].ev = "response" /\ log[i].kind # "page") =>
            /\ \A j \in (i + 1)..Len(log) : log[j].site # "github"
            /\ Len(GithubRequests) = log[i].n
            /\ promptData = createMergedPrompt(JsArray(allPRs))
            /\ entry = "prs" =>
                /\ allPRs = SelectSeq(fetched, LAMBDA pr : InRange(pr.mergedAt))
                /\ pc = "done"
                /\ outcome = Returned(TRUE, NoError)
            /\ entry # "prs" =>
                /\ pc \notin {"prs_call", "pr_request", "pr_await"}
                /\ pc = "done" => Len(ImageRequests) >= 1
                /\ outcome.kind = "throw" => outcome.error.kind \notin {"throw", "errors"}

\* C22 witness: a workflow whose first page held a PR of the previous day and
\* whose second page request threw; it went on to request the image with a
\* prompt built from that one PR.
C22_Witness ==
    /\ entry = "workflow"
    /\ Len(GithubResponses) = 2
    /\ GithubResponses[2].kind = "throw"
    /\ promptData.prCount = 1
    /\ Len(ImageRequests) >= 1

\* The error generateAndSaveComicImage's try block raised (NoError: none): a
\* retrying fetch that raised, wrapped, or the failed write of the file.
ImageRaised ==
    IF fetchResult.status = "raised" THEN Wrap(fetchResult.error)
    ELSE IF FileWrites # <<>> /\ Last(FileWrites).kind = "throw" THEN Err("fs", 0)
    ELSE NoError

\* The error a step of the workflow's try block raised (NoError: none), read
\* from the inputs and the history: the missing GitHub token, the failed image
\* result, and in runFullWorkflow the failed verification and the rejected
\* getSubredditById or submitImage of the posting step.
WorkflowRaised ==
    IF ~githubToken THEN Err("GitHub token is required", 0)
    ELSE IF imageData.present /\ ~imageData.success THEN Wrap(imageData.error)
    ELSE IF entry = "full" /\ VerifyReturned("false")
    THEN Err("Bot connection verification failed", 0)
    ELSE IF entry = "full" /\ PostFailed
    THEN (IF Last(log).site = "submitImage" THEN Err("rejected", 0)
          ELSE Err("no subreddit", 0))
    ELSE NoError

\* C23: runFullWorkflow, runComicGenerationWorkflow and
\* generateAndSaveComicImage never raise: each returns a result object with a
\* boolean success; success is false exactly when a step raised, and the object
\* then carries that step's error; success is true only when no step raised.
C23_WorkflowsReturnResult ==
    /\ entry \in {"workflow", "full"} =>
        /\ outcome.kind \in {"none", "return"}
        /\ pc = "done" =>
            /\ outcome.kind = "return"
            /\ outcome.success \in BOOLEAN
            /\ outcome.success = (WorkflowRaised = NoError)
            /\ outcome.error = WorkflowRaised
    /\ (entry \in {"workflow", "full", "standalone", "comic"} /\ imageData.present) =>
        /\ imageData.success \in BOOLEAN
        /\ imageData.success = (ImageRaised = NoError)
        /\ imageData.error = ImageRaised

\* C23 witness: runFullWorkflow produced its image, verified the bot, had
\* submitImage rejected and returned {success: false} with that error.
C23_Witness ==
    /\ entry = "full"
    /\ pc = "done"
    /\ imageData.success
    /\ outcome = Returned(FALSE, Err("rejected", 0))
    /\ Last(log).site = "submitImage"

\* The position of a history entry of the hosted handler among its steps.
HostedStep(e) ==
    CASE e.site = "settings" -> 1
      [] e.site = "pipeline" /\ e.kind = "h_prs" -> 2
      [] e.site = "pipeline" /\ e.kind = "h_image" -> 3
      [] e.site = "pipeline" /\ e.kind = "h_title" -> 4
      [] e.site = "pipeline" -> 0
      [] e.site = "upload" -> 5
      [] e.site = "hosted" -> 6
      [] e.site = "submit" -> 7
      [] OTHER -> 8

\* The step a history entry belongs to: a response belongs to the step of the
\* request before it.
HostedStepAt(i) ==
    IF log[i].ev = "response" THEN HostedStep(log[i - 1]) ELSE HostedStep(log[i])

HostedEntries == {"hosted", "hostedLink"}

\* C24: a press of the hosted menu item shows exactly one toast, when it ends;
\* its steps run in the order settings and token check, PR fetch, image
\* generation, title generation, media upload, wait, submitPost, each after the
\* one before it returned; submitPost is called only after the upload returned
\* successfully and the wait, and 'Image posted successfully!' is shown only
\* after submitPost returned without error.
C24_OneToastStepsInOrder ==
    entry \in HostedEntries =>
        /\ Len(toasts) = (IF pc = "done" THEN 1 ELSE 0)
        /\ \A i \in 1..Len(log) : \A j \in i..Len(log) :
                HostedStepAt(i) <= HostedStepAt(j)
        /\ \A i \in 1..Len(log) :
            /\ (log[i].ev = "request" /\ log[i].site = "pipeline") =>
                    githubToken /\ pollinationsToken
            /\ (log[i].ev = "request" /\ entry = "hosted" /\ HostedStepAt(i) \in 3..5) =>
                    /\ log[i - 1].ev = "response"
                    /\ log[i - 1].kind = "ok"
                    /\ HostedStepAt(i - 1) = HostedStepAt(i) - 1
            /\ (log[i].ev = "request" /\ log[i].site = "submit") =>
                    /\ i > 2
                    /\ log[i - 1] = Ev("wait", "hosted", SUBMIT_DELAY_MS, "sleep")
                    /\ log[i - 2] = Ev("response", "upload", 1, "ok")
        /\ toasts = <<"Image posted successfully!">> =>
            /\ Len(log) >= 1
            /\ Last(log) = Ev("response", "submit", 1, "ok")

\* C24 witness: a press of main.ts's item went through all its steps and
\* showed 'Image posted successfully!'.
C24_Witness ==
    /\ entry = "hosted"
    /\ pc = "done"
    /\ toasts = <<"Image posted successfully!">>
    /\ Len(Events("response", "pipeline")) = 3

PostedToasts == {"Image posted successfully!", "Image posted! Processing on Reddit..."}

C26_PromptCountsAndOrder ==
    (entry = "createMergedPrompt" /\ pc = "done") =>
        LET n == Len(prsArg.items)
            hs == promptData.highlights
        IN IF ~prsArg.defined \/ n = 0
           THEN /\ promptData.default
                /\ promptData.prCount = 0
                /\ hs = <<>>
           ELSE /\ ~promptData.default
                /\ promptData.prCount = n
                /\ Len(hs) = (IF n < HIGHLIGHT_LIMIT THEN n ELSE HIGHLIGHT_LIMIT)
                /\ \A k \in 1..Len(hs) :
                    LET title == prsArg.items[k].title IN
                    /\ Len(hs[k]) > Len(title)
                    /\ SubSeq(hs[k], Len(hs[k]) - Len(title) + 1, Len(hs[k])) = title
                /\ Len(promptData.prs) = n
                /\ \A k \in 1..n :
                    /\ promptData.prs[k].number = prsArg.items[k].number
                    /\ promptData.prs[k].title = prsArg.items[k].title
                    /\ promptData.prs[k].url = prsArg.items[k].url

\* C26 witness: a call with more pull requests than HIGHLIGHT_LIMIT returned.
C26_Witness ==
    /\ entry = "createMergedPrompt"
    /\ pc = "done"
    /\ Len(prsArg.items) > HIGHLIGHT_LIMIT
    /\ Len(promptData.highlights) = HIGHLIGHT_LIMIT
    /\ promptData.prCount = Len(prsArg.items)

\* The theme the claim gives a category.
ThemeOfCategory(category) ==
    CASE category = CATEGORY_BUG_FIX -> "stability"
      [] category = CATEGORY_FEATURE -> "innovation"
      [] category = CATEGORY_DOCUMENTATION -> "education"
      [] category = CATEGORY_OPTIMIZATION -> "performance"
      [] OTHER -> "growth"

\* C27: in createMergedPrompt the theme derived from every highlight is the
\* one that belongs to the category of its pull request, whatever the letter
\* case of the title, so that the themes named in the prompt are those of the
\* categories of the first eight pull requests; and the list of themes holds
\* each theme at most once.
C27_ThemeAgreesWithCategory ==
    (entry = "createMergedPrompt" /\ pc = "done" /\ ~promptData.default) =>
        LET hs == promptData.highlights
            themes == promptData.themes
        IN /\ \A k \in 1..Len(hs) :
                Theme(hs[k]) = ThemeOfCategory(Category(prsArg.items[k]))
           /\ {themes[i] : i \in 1..Len(themes)}
                = {ThemeOfCategory(Category(prsArg.items[k])) : k \in 1..Len(hs)}
           /\ \A i \in 1..Len(themes) : \A j \in 1..Len(themes) :
                themes[i] = themes[j] => i = j

TitleResponses == Events("response", "title")

\* C28: generateTitleFromImage never raises and always returns a non-empty
\* title.  It sends one request and never another; when the request or the
\* reading of its response fails it returns 'Pollinations Daily Update'; when
\* the response holds no text, or only white space, it returns 'Pollinations
\* Update'; otherwise it returns the text without the white space around it.
C28_TitleNeverEmpty ==
    entry = "title" =>
        /\ outcome.kind # "throw"
        /\ Sent("title") <= 1
        /\ Len(TitleResponses) <= Sent("title")
        /\ Events("wait", "title") = <<>>
        /\ pc # "done" => postTitle = NoTitle
        /\ pc = "done" =>
            /\ Len(TitleResponses) = 1
            /\ postTitle # NoTitle
            /\ LET o == TitleResponses[1].kind
                   text == postTitle.text
               IN IF o \in {"reject", "bad json", "null body", "content not a string"}
                  THEN postTitle = FixedTitle("Pollinations Daily Update")
                  ELSE IF \/ o \in {"no choices", "null content"}
                          \/ \A i \in 1..Len(ContentText(o)) :
                                ContentText(o)[i] \in WhiteSpace
                  THEN postTitle = FixedTitle("Pollinations Update")
                  ELSE /\ postTitle.fixed = ""
                       /\ text # <<>>
                       /\ Head(text) \notin WhiteSpace
                       /\ Last(text) \notin WhiteSpace
                       /\ \E a, b \in SeqsUpTo(WhiteSpace, Len(ContentText(o))) :
                            ContentText(o) = a \o text \o b

\* C28 witness: the response held a text with white space around it, and the
\* title is the text inside.
C28_Witness ==
    /\ entry = "title"
    /\ pc = "done"
    /\ TitleResponses[1].kind = "text: inner"
    /\ postTitle = [text |-> <<"H", " ", "i">>, fixed |-> ""]

====
